---- MODULE Spec2Model ----
(***************************************************************************)
(* Model of src/main.py: DisplayManager (pygame window bootstrap).         *)
(*                                                                         *)
(* main() constructs a DisplayManager (pygame.init, load_config, set_mode, *)
(* set_caption) and calls run(), the event loop.  The configuration file,  *)
(* the display server and the platform event queue are the environment.    *)
(***************************************************************************)
EXTENDS Integers, Sequences, FiniteSets, TLC

VARIABLES
    pc,           \* position of the single thread of control
    file,         \* config/display.yml on disk
    config,       \* self.config
    pygameInit,   \* graphics subsystem initialised (init called, quit not yet)
    loadCalls,    \* number of calls of load_config
    setModeCalls, \* number of calls of pygame.display.set_mode
    request,      \* arguments of the set_mode call
    screen,       \* self.screen
    caption,      \* window caption
    queue,        \* platform event queue (pending events)
    batch,        \* rest of the list returned by pygame.event.get()
    drained,      \* events of the iteration in progress, as returned by get()
    surface,      \* pixels of the drawable surface
    presented,    \* frames made visible by flip, oldest first
    polls,        \* number of calls of pygame.event.get()
    clears,       \* number of calls of screen.fill
    exitStatus,   \* process exit status, -1 while running
    exc,          \* uncaught exception type, "none" if none
    raisedIn      \* function whose statement raised exc

vars == <<pc, file, config, pygameInit, loadCalls, setModeCalls, request,
          screen, caption, queue, batch, drained, surface, presented,
          polls, clears, exitStatus, exc, raisedIn>>

(* ------------------------------ bounds --------------------------------- *)
MaxDim == 10      \* widths and heights are drawn from (MaxDim-1)..MaxDim
MaxQueue == 2     \* pending events in the platform queue
MaxIter == 2      \* iterations of the run loop
NumPixels == 2    \* pixels of the drawable surface

(* --------------------------- Python values ----------------------------- *)
\* A scalar Python value; every value carries all fields so that values of
\* different types can be compared.
PyInt(n)  == [type |-> "int",  i |-> n, b |-> FALSE, s |-> <<>>]
PyBool(v) == [type |-> "bool", i |-> 0, b |-> v,     s |-> <<>>]
PyStr(t)  == [type |-> "str",  i |-> 0, b |-> FALSE, s |-> t]
PyNone    == [type |-> "NoneType", i |-> 0, b |-> FALSE, s |-> <<>>]

\* Truth value of a Python object, as tested by a conditional expression.
Truthy(v) ==
    CASE v.type = "bool" -> v.b
      [] v.type = "int"  -> v.i # 0
      [] v.type = "str"  -> v.s # <<>>
      [] OTHER           -> FALSE

(* ------------------------ the YAML document ---------------------------- *)
Keys == {"width", "height", "fullscreen"}

Digits == <<"0", "1", "2", "3", "4", "5", "6", "7", "8", "9">>
DigitSet == {Digits[k] : k \in 1..10}
DigitVal(c) == (CHOOSE k \in 1..10 : Digits[k] = c) - 1

TrueText  == <<"t", "r", "u", "e">>
FalseText == <<"f", "a", "l", "s", "e">>
YesText   == <<"y", "e", "s">>
NoText    == <<"n", "o">>
OnText    == <<"o", "n">>
OffText   == <<"o", "f", "f">>
NullText  == <<"n", "u", "l", "l">>

\* A scalar node of the document: its text and whether it is quoted.
Plain(t)  == [style |-> "plain",  text |-> t]
Quoted(t) == [style |-> "quoted", text |-> t]

RECURSIVE FormatInt(_)
\* Decimal text of a non-negative integer.
FormatInt(n) ==
    IF n < 10 THEN <<Digits[n + 1]>>
    ELSE Append(FormatInt(n \div 10), Digits[(n % 10) + 1])

\* The document of the expected shape for a DisplayConfig
\* (display: width / height / fullscreen).
Dump(cfg) ==
    [kind |-> "mapping",
     display |-> [k \in Keys |->
        CASE k = "width"  -> Plain(FormatInt(cfg.width))
          [] k = "height" -> Plain(FormatInt(cfg.height))
          [] OTHER        -> Plain(IF cfg.fullscreen THEN TrueText ELSE FalseText)]]

\* The same document without the line of key k.
RemoveKey(doc, k) ==
    [doc EXCEPT !.display = [j \in (DOMAIN doc.display) \ {k} |-> doc.display[j]]]

\* The same document with the scalar of key k replaced.
SetKey(doc, k, node) == [doc EXCEPT !.display[k] = node]

NoDisplay == [j \in {} |-> Plain(<<>>)]
MissingFile     == [kind |-> "missing",     display |-> NoDisplay]
UnparseableFile == [kind |-> "unparseable", display |-> NoDisplay]
EmptyFile       == [kind |-> "empty",       display |-> NoDisplay]

RECURSIVE ParseIntLowFirst(_)
\* ParseInt reading the digits from the wrong end.
ParseIntLowFirst(t) ==
    IF Len(t) = 1 THEN DigitVal(t[1])
    ELSE 10 * ParseIntLowFirst(Tail(t)) + DigitVal(t[1])

RECURSIVE ParseInt(_)
\* Value of a decimal digit string.
ParseInt(t) ==
    IF Len(t) = 1 THEN DigitVal(t[1])
    ELSE 10 * ParseInt(SubSeq(t, 1, Len(t) - 1)) + DigitVal(t[Len(t)])

RECURSIVE ParseOctal(_)
\* Value of an octal digit string.
ParseOctal(t) ==
    IF Len(t) = 1 THEN DigitVal(t[1])
    ELSE 8 * ParseOctal(SubSeq(t, 1, Len(t) - 1)) + DigitVal(t[Len(t)])

IsDecimal(t) ==
    /\ Len(t) >= 1
    /\ \A k \in 1..Len(t) : t[k] \in DigitSet
    /\ (Len(t) = 1 \/ t[1] # "0")

IsOctal(t) ==
    /\ Len(t) >= 2
    /\ t[1] = "0"
    /\ \A k \in 2..Len(t) : t[k] \in DigitSet /\ DigitVal(t[k]) <= 7

\* yaml.safe_load's construction of a scalar (YAML 1.1 resolver): a quoted
\* scalar is a string; a plain one is a bool, an int, null or a string.
ResolveScalar(node) ==
    IF node.style = "quoted" THEN PyStr(node.text)
    ELSE CASE node.text \in {TrueText, YesText, OnText}   -> PyBool(TRUE)
           [] node.text \in {FalseText, NoText, OffText}  -> PyBool(FALSE)
           [] IsDecimal(node.text)                        -> PyInt(ParseInt(node.text))
           [] IsOctal(node.text)                          -> PyInt(ParseOctal(node.text))
           [] node.text \in {NullText, <<>>}              -> PyNone
           [] OTHER                                       -> PyStr(node.text)

\* yaml.safe_load(f) of a parseable document: None for an empty document,
\* otherwise {'display': {key: value}}.
SafeLoad(doc) ==
    [isNone |-> doc.kind = "empty",
     display |-> [k \in DOMAIN doc.display |-> ResolveScalar(doc.display[k])]]

NoConfig == [isNone |-> TRUE, display |-> [j \in {} |-> PyNone]]

(* ------------------------------ inputs --------------------------------- *)
Dims == (MaxDim - 1)..MaxDim
ValidConfigs == [width : Dims, height : Dims, fullscreen : BOOLEAN]

Files ==
    {MissingFile, UnparseableFile, EmptyFile}
    \cup {Dump(c) : c \in ValidConfigs}
    \cup {RemoveKey(Dump(c), k) : c \in ValidConfigs, k \in Keys}
    \cup {SetKey(Dump(c), "fullscreen", Quoted(FalseText)) :
             c \in {d \in ValidConfigs : d.width = MaxDim /\ d.height = MaxDim}}

(* ------------------------------ events --------------------------------- *)
Event(t, k) == [type |-> t, key |-> k]
Events == {Event("QUIT", "none"),
           Event("KEYDOWN", "K_ESCAPE"),
           Event("KEYDOWN", "K_SPACE"),
           Event("KEYUP", "K_ESCAPE")}

\* IsQuitIntent without the window-close test.
IsQuitIntentNoClose(e) ==
    e.type = "KEYDOWN" /\ e.key = "K_ESCAPE"

\* IsQuitIntent without the Escape test.
IsQuitIntentNoEscape(e) ==
    e.type = "QUIT"

\* IsQuitIntent testing the key of any key event, press or release.
IsQuitIntentAnyKeyEvent(e) ==
    e.type = "QUIT" \/ e.key = "K_ESCAPE"

\* The test of the event loop (the key is read only for a KEYDOWN event).
IsQuitIntent(e) ==
    e.type = "QUIT" \/ (e.type = "KEYDOWN" /\ e.key = "K_ESCAPE")

(* ------------------------------ surface -------------------------------- *)
Black == <<0, 0, 0>>
White == <<255, 255, 255>>
Colours == {Black, White}
Surfaces == [1..NumPixels -> Colours]

\* Fill that leaves the last pixel as it was.
FillPartial(s, colour) ==
    [p \in DOMAIN s |-> IF p = NumPixels THEN s[p] ELSE colour]

\* Surface.fill(colour) without a rect: every pixel becomes colour.
Fill(s, colour) == [p \in DOMAIN s |-> colour]

NoRequest == [made |-> FALSE, width |-> PyNone, height |-> PyNone, fullscreen |-> FALSE]

(* ------------------------------- Init ---------------------------------- *)
\* The process has just started main(); the file system holds any of Files.
Init ==
    /\ pc = "start"
    /\ file \in Files
    /\ config = NoConfig
    /\ pygameInit = FALSE
    /\ loadCalls = 0
    /\ setModeCalls = 0
    /\ request = NoRequest
    /\ screen = "None"
    /\ caption = "pygame window"
    /\ queue = <<>>
    /\ batch = <<>>
    /\ drained = <<>>
    /\ surface = [p \in 1..NumPixels |-> Black]
    /\ presented = <<>>
    /\ polls = 0
    /\ clears = 0
    /\ exitStatus = -1
    /\ exc = "none"
    /\ raisedIn = "none"

\* An exception nobody catches: the interpreter prints the traceback and the
\* process ends with status 1.
Raise(e, where) ==
    /\ exc' = e
    /\ raisedIn' = where
    /\ exitStatus' = 1
    /\ pc' = "exited"

(* ------------------------ DisplayManager.__init__ ---------------------- *)
\* pygame.init()
PygameInit ==
    /\ pc = "start"
    /\ pygameInit' = TRUE
    /\ pc' = "load_config"
    /\ UNCHANGED <<file, config, loadCalls, setModeCalls, request, screen,
                   caption, queue, batch, drained, surface, presented,
                   polls, clears, exitStatus, exc, raisedIn>>

\* ReadFile that takes a missing file for an empty document.
ReadFileLenient(f) ==
    CASE f.kind = "unparseable" -> [err |-> "YAMLError", value |-> NoConfig]
      [] OTHER                  -> [err |-> "none", value |-> SafeLoad(f)]

\* open(config_path) and yaml.safe_load(f): the exception raised, if any,
\* and the value parsed.
ReadFile(f) ==
    CASE f.kind = "missing"     -> [err |-> "FileNotFoundError", value |-> NoConfig]
      [] f.kind = "unparseable" -> [err |-> "YAMLError", value |-> NoConfig]
      [] OTHER                  -> [err |-> "none", value |-> SafeLoad(f)]

\* self.load_config(): open the file and parse it into self.config.
LoadConfig ==
    /\ pc = "load_config"
    /\ loadCalls' = loadCalls + 1
    /\ IF ReadFile(file).err # "none"
       THEN /\ Raise(ReadFile(file).err, "load_config")
            /\ UNCHANGED config
       ELSE /\ config' = ReadFile(file).value
            /\ pc' = "set_mode"
            /\ UNCHANGED <<exitStatus, exc, raisedIn>>
    /\ UNCHANGED <<file, pygameInit, setModeCalls, request, screen, caption,
                   queue, batch, drained, surface, presented, polls, clears>>

\* Lookup that yields a default for an absent key (dict.get).
LookupDefault(d, k) ==
    IF k \in DOMAIN d THEN [ok |-> TRUE, val |-> d[k]]
    ELSE [ok |-> TRUE, val |-> PyInt(0)]

\* d[k] on a dict: the value, or KeyError when the key is absent.
Lookup(d, k) ==
    IF k \in DOMAIN d THEN [ok |-> TRUE, val |-> d[k]]
    ELSE [ok |-> FALSE, val |-> PyNone]

\* FullscreenFlag that never asks for fullscreen.
FullscreenFlagIgnored(v) == FALSE

\* The flags argument: pygame.FULLSCREEN if the value is true, else 0.
FullscreenFlag(v) == Truthy(v)

\* self.screen = pygame.display.set_mode((width, height), flags): the
\* arguments are evaluated first, left to right, then the call is made; the
\* display server may refuse the window.
SetMode ==
    /\ pc = "set_mode"
    /\ UNCHANGED <<file, config, pygameInit, loadCalls, caption, queue, batch,
                   drained, presented, polls, clears>>
    /\ IF config.isNone
       THEN /\ Raise("TypeError", "__init__")
            /\ UNCHANGED <<setModeCalls, request, screen, surface>>
       ELSE IF \E k \in Keys : ~Lookup(config.display, k).ok
       THEN /\ Raise("KeyError", "__init__")
            /\ UNCHANGED <<setModeCalls, request, screen, surface>>
       ELSE /\ setModeCalls' = setModeCalls + 1
            /\ request' = [made |-> TRUE,
                           width |-> Lookup(config.display, "width").val,
                           height |-> Lookup(config.display, "height").val,
                           fullscreen |->
                               FullscreenFlag(Lookup(config.display, "fullscreen").val)]
            /\ IF \E k \in {"width", "height"} :
                       Lookup(config.display, k).val.type \notin {"int", "bool"}
               THEN /\ Raise("TypeError", "__init__")
                    /\ UNCHANGED <<screen, surface>>
               ELSE \E ok \in BOOLEAN :
                      IF ok
                      THEN /\ screen' = "Surface"
                           /\ surface' \in Surfaces
                           /\ pc' = "set_caption"
                           /\ UNCHANGED <<exitStatus, exc, raisedIn>>
                      ELSE /\ Raise("pygame.error", "__init__")
                           /\ UNCHANGED <<screen, surface>>

\* pygame.display.set_caption("Digital Life"); main() then calls run().
SetCaption ==
    /\ pc = "set_caption"
    /\ caption' = "Digital Life"
    /\ pc' = "poll"
    /\ UNCHANGED <<file, config, pygameInit, loadCalls, setModeCalls, request,
                   screen, queue, batch, drained, surface, presented, polls,
                   clears, exitStatus, exc, raisedIn>>

(* -------------------------- DisplayManager.run ------------------------- *)
\* pygame.event.get(): take every pending event off the platform queue.
Poll ==
    /\ pc = "poll"
    /\ polls < MaxIter
    /\ polls' = polls + 1
    /\ batch' = queue
    /\ drained' = queue
    /\ queue' = <<>>
    /\ pc' = "events"
    /\ UNCHANGED <<file, config, pygameInit, loadCalls, setModeCalls, request,
                   screen, caption, surface, presented, clears, exitStatus,
                   exc, raisedIn>>

\* One turn of "for event in ...": test the next event of the list.
NextEvent ==
    /\ pc = "events"
    /\ batch # <<>>
    /\ batch' = Tail(batch)
    /\ pc' = IF IsQuitIntent(Head(batch)) THEN "pygame_quit" ELSE "events"
    /\ UNCHANGED <<file, config, pygameInit, loadCalls, setModeCalls, request,
                   screen, caption, queue, drained, surface, presented, polls,
                   clears, exitStatus, exc, raisedIn>>

\* The list is exhausted: the for loop ends and the body goes on.
EndOfEvents ==
    /\ pc = "events"
    /\ batch = <<>>
    /\ pc' = "fill"
    /\ UNCHANGED <<file, config, pygameInit, loadCalls, setModeCalls, request,
                   screen, caption, queue, batch, drained, surface, presented,
                   polls, clears, exitStatus, exc, raisedIn>>

\* PygameQuit leaving the subsystem initialised.
PygameQuitSkipped ==
    /\ pc = "pygame_quit"
    /\ pc' = "sys_exit"
    /\ UNCHANGED <<file, config, pygameInit, loadCalls, setModeCalls, request,
                   screen, caption, queue, batch, drained, surface, presented,
                   polls, clears, exitStatus, exc, raisedIn>>

\* pygame.quit()
PygameQuit ==
    /\ pc = "pygame_quit"
    /\ pygameInit' = FALSE
    /\ pc' = "sys_exit"
    /\ UNCHANGED <<file, config, loadCalls, setModeCalls, request, screen,
                   caption, queue, batch, drained, surface, presented, polls,
                   clears, exitStatus, exc, raisedIn>>

\* sys.exit(): SystemExit without a code, the process ends with status 0.
SysExit ==
    /\ pc = "sys_exit"
    /\ exitStatus' = 0
    /\ pc' = "exited"
    /\ UNCHANGED <<file, config, pygameInit, loadCalls, setModeCalls, request,
                   screen, caption, queue, batch, drained, surface, presented,
                   polls, clears, exc, raisedIn>>

\* self.screen.fill((0, 0, 0))
ClearScreen ==
    /\ pc = "fill"
    /\ surface' = Fill(surface, Black)
    /\ clears' = clears + 1
    /\ pc' = "flip"
    /\ UNCHANGED <<file, config, pygameInit, loadCalls, setModeCalls, request,
                   screen, caption, queue, batch, drained, presented, polls,
                   exitStatus, exc, raisedIn>>

\* Flip that reads the configuration again at the end of each iteration.
FlipReload ==
    /\ pc = "flip"
    /\ presented' = Append(presented, surface)
    /\ surface' \in Surfaces
    /\ drained' = <<>>
    /\ pc' = "poll"
    /\ loadCalls' = loadCalls + 1
    /\ config' = SafeLoad(file)
    /\ UNCHANGED <<file, pygameInit, setModeCalls, request, screen, caption,
                   queue, batch, polls, clears, exitStatus, exc, raisedIn>>

\* pygame.display.flip(): the surface becomes visible; what the drawable
\* surface holds afterwards (the other buffer, on a page-flipping display)
\* is not determined by the program.  The iteration ends here.
Flip ==
    /\ pc = "flip"
    /\ presented' = Append(presented, surface)
    /\ surface' \in Surfaces
    /\ drained' = <<>>
    /\ pc' = "poll"
    /\ UNCHANGED <<file, config, pygameInit, loadCalls, setModeCalls, request,
                   screen, caption, queue, batch, polls, clears, exitStatus,
                   exc, raisedIn>>

(* ----------------------------- environment ----------------------------- *)
InLoop == pc \in {"poll", "events", "fill", "flip"}

\* The platform queues an input or window event while the window is open.
PostEvent ==
    /\ InLoop
    /\ Len(queue) < MaxQueue
    /\ \E e \in Events : queue' = Append(queue, e)
    /\ UNCHANGED <<pc, file, config, pygameInit, loadCalls, setModeCalls,
                   request, screen, caption, batch, drained, surface,
                   presented, polls, clears, exitStatus, exc, raisedIn>>

(* --------------------------- specification ----------------------------- *)
LoopStep ==
    \/ Poll
    \/ NextEvent
    \/ EndOfEvents
    \/ PygameQuit
    \/ SysExit
    \/ ClearScreen
    \/ Flip

Next ==
    \/ PygameInit
    \/ LoadConfig
    \/ SetMode
    \/ SetCaption
    \/ Poll
    \/ NextEvent
    \/ EndOfEvents
    \/ PygameQuit
    \/ SysExit
    \/ ClearScreen
    \/ Flip
    \/ PostEvent

Spec == Init /\ [][Next]_vars

\* The documents with which the constructor can succeed and run() be entered,
\* at one window size.
RunFiles ==
    {Dump(c) : c \in {d \in ValidConfigs : d.width = MaxDim /\ d.height = MaxDim - 1}}

RunInit == Init /\ file \in RunFiles

\* The running program: the single thread runs on, a step of the program
\* that can be taken is taken.
FairSpec ==
    /\ RunInit
    /\ [][Next]_vars
    /\ WF_vars(PygameInit \/ LoadConfig \/ SetMode \/ SetCaption \/ LoopStep)

(* ------------------------ vocabulary of the claims --------------------- *)
CloseEvent  == Event("QUIT", "none")
EscapePress == Event("KEYDOWN", "K_ESCAPE")
Contains(seq, e) == \E i \in 1..Len(seq) : seq[i] = e
HasQuitIntent(seq) == Contains(seq, CloseEvent) \/ Contains(seq, EscapePress)
AllBlack == [p \in 1..NumPixels |-> <<0, 0, 0>>]
Frames == Len(presented)
OnQuitPath == pc \in {"events", "pygame_quit", "sys_exit", "exited"}
\* How the process ended, relative to the start of the last iteration.
Terminal ==
    [status |-> exitStatus, released |-> ~pygameInit, exception |-> exc,
     clearsInIteration |-> clears - (polls - 1),
     framesInIteration |-> Frames - (polls - 1)]
CleanQuit ==
    [status |-> 0, released |-> TRUE, exception |-> "none",
     clearsInIteration |-> 0, framesInIteration |-> 0]
MissingKeys == Keys \ DOMAIN file.display
Failed == pc = "exited" /\ exc # "none" /\ exitStatus \notin {-1, 0}

(* -------------------------------- C1 ----------------------------------- *)
\* C1: when the events drained by a poll contain a window-close event, the
\* iteration never reaches the clear or the present (no fill and no flip
\* happen after the poll), and the loop ends in that iteration with exit
\* status 0.
QuitByClose ==
    /\ [](Contains(drained, CloseEvent) =>
            /\ OnQuitPath
            /\ clears = polls - 1
            /\ Frames = polls - 1
            /\ (pc = "exited" => Terminal = CleanQuit))
    /\ (Contains(drained, CloseEvent) ~> (pc = "exited" /\ exitStatus = 0))

QuitByCloseWitness ==
    /\ pc = "exited"
    /\ exitStatus = 0
    /\ Contains(drained, CloseEvent)
    /\ ~Contains(drained, EscapePress)
    /\ Frames = 1

(* -------------------------------- C2 ----------------------------------- *)
\* C2: a key-press of Escape among the drained events ends the loop as the
\* close event does: the process ends in the terminal state of the close
\* path (subsystem released, status 0, no exception, no clear and no frame
\* since the poll).
QuitByEscape ==
    Contains(drained, EscapePress) =>
        /\ OnQuitPath
        /\ pc \in {"sys_exit", "exited"} => ~pygameInit
        /\ pc # "exited" => exitStatus = -1
        /\ pc = "exited" => Terminal = CleanQuit

QuitByEscapeWitness ==
    /\ pc = "exited"
    /\ Terminal = CleanQuit
    /\ Contains(drained, EscapePress)
    /\ ~Contains(drained, CloseEvent)

(* -------------------------------- C3 ----------------------------------- *)
\* C3: the loop is left only on quit-intent: run is on its way out only when
\* the drained events contain a close event or a key-press of Escape, and an
\* iteration whose drained events contain neither goes on to clear, present
\* and come back to the poll.
OnlyExitPath ==
    /\ [](((pc \in {"pygame_quit", "sys_exit", "exited"}) /\ polls > 0)
              => HasQuitIntent(drained))
    /\ [](polls > 0 => (exc = "none" /\ exitStatus \in {-1, 0}))
    /\ ((pc = "events" /\ ~HasQuitIntent(drained))
            ~> (pc = "poll" /\ clears = polls /\ Frames = polls))

OnlyExitPathWitness ==
    /\ pc = "poll"
    /\ polls = 2
    /\ Frames = 2
    /\ Contains(queue, Event("KEYUP", "K_ESCAPE"))

(* -------------------------------- C4 ----------------------------------- *)
\* C4: with the configuration file missing, load_config raises, the process
\* ends with a non-zero status, set_mode is never called and the loop is
\* never entered.
MissingFileFails ==
    file.kind = "missing" =>
        /\ pc \in {"start", "load_config", "exited"}
        /\ setModeCalls = 0
        /\ ~request.made
        /\ screen = "None"
        /\ polls = 0
        /\ pc = "exited" => (Failed /\ raisedIn = "load_config")

MissingFileWitness ==
    /\ file.kind = "missing"
    /\ Failed
    /\ loadCalls = 1

(* -------------------------------- C5 ----------------------------------- *)
\* C5 as stated: for a readable document with one of width, height,
\* fullscreen missing, load_config raises: the partial document never
\* becomes the configuration, and no window is opened.
MalformedDocumentFailsInLoader ==
    (file.kind = "mapping" /\ MissingKeys # {}) =>
        /\ config = NoConfig
        /\ setModeCalls = 0
        /\ screen = "None"
        /\ pc = "exited" => (Failed /\ raisedIn = "load_config")

\* C5 amended: for such a document load_config returns normally with the
\* partial document as the configuration (nothing is defaulted); the
\* constructor raises KeyError while evaluating the arguments of set_mode,
\* so set_mode is never called, no window is opened, the loop is never
\* entered and the process ends with a non-zero status.
MalformedDocumentFails ==
    (file.kind = "mapping" /\ MissingKeys # {}) =>
        /\ pc \in {"start", "load_config", "set_mode", "exited"}
        /\ pc \in {"set_mode", "exited"} =>
              (~config.isNone /\ DOMAIN config.display = DOMAIN file.display)
        /\ setModeCalls = 0
        /\ ~request.made
        /\ screen = "None"
        /\ polls = 0
        /\ pc = "exited" => (Failed /\ exc = "KeyError" /\ raisedIn = "__init__")

MalformedDocumentWitness ==
    /\ file.kind = "mapping"
    /\ MissingKeys = {"fullscreen"}
    /\ Failed
    /\ exc = "KeyError"

(* -------------------------------- C6 ----------------------------------- *)
\* C6: every presented frame is entirely black whatever the surface held
\* before, and each iteration does exactly one clear and then exactly one
\* present: a present is always preceded by the clear of its iteration.
IdempotentClear ==
    /\ \A n \in 1..Frames : presented[n] = AllBlack
    /\ pc \in {"poll", "set_caption"} => (clears = polls /\ Frames = polls)
    /\ pc \in {"events", "fill"} => (clears = polls - 1 /\ Frames = polls - 1)
    /\ pc = "flip" => (clears = polls /\ Frames = polls - 1 /\ surface = AllBlack)

IdempotentClearWitness ==
    /\ Frames = 2
    /\ pc = "poll"
    /\ surface # AllBlack

(* -------------------------------- C7 ----------------------------------- *)
\* C7: the set_mode call carries exactly the configured width and height,
\* and asks for fullscreen exactly when the configured boolean is true; a
\* window exists only through such a call.
FullscreenFlagHonoured ==
    /\ screen = "Surface" => request.made
    /\ (request.made /\ config.display["fullscreen"].type = "bool") =>
          /\ request.width = config.display["width"]
          /\ request.height = config.display["height"]
          /\ request.fullscreen = config.display["fullscreen"].b

FullscreenFlagWitness ==
    /\ screen = "Surface"
    /\ request.fullscreen
    /\ config.display["fullscreen"] = PyBool(TRUE)
    /\ request.width = PyInt(MaxDim)
    /\ request.height = PyInt(MaxDim - 1)

(* -------------------------------- C8 ----------------------------------- *)
\* C8: a valid DisplayConfig written in the expected document shape is read
\* back by load_config with the same three values.
ConfigRoundTrip ==
    \A c \in ValidConfigs :
        (file = Dump(c) /\ loadCalls = 1) =>
            /\ ~config.isNone
            /\ DOMAIN config.display = Keys
            /\ config.display["width"] = PyInt(c.width)
            /\ config.display["height"] = PyInt(c.height)
            /\ config.display["fullscreen"] = PyBool(c.fullscreen)

ConfigRoundTripWitness ==
    /\ pc = "set_mode"
    /\ \E c \in ValidConfigs :
          /\ file = Dump(c)
          /\ c.width >= 10
          /\ c.height # c.width
          /\ config.display["width"] = PyInt(c.width)

(* -------------------------------- C9 ----------------------------------- *)
\* C9 as stated: the graphics subsystem is released before the process ends
\* on every exit path.
ReleasedOnEveryExit ==
    pc = "exited" => ~pygameInit

\* C9 amended: the program releases the graphics subsystem (pygame.quit)
\* only on the quit path, before it terminates with status 0; on a fatal
\* error the process ends with the subsystem still initialised.
ReleasedOnQuitOnly ==
    /\ pc = "sys_exit" => ~pygameInit
    /\ pc = "exited" => (~pygameInit <=> (exitStatus = 0 /\ exc = "none"))
    /\ pc \notin {"start", "sys_exit", "exited"} => pygameInit

ReleasedOnQuitWitness ==
    /\ pc = "exited"
    /\ exitStatus = 0
    /\ ~pygameInit
    /\ polls = 1

(* -------------------------------- C10 ---------------------------------- *)
\* C10: load_config runs once, before set_mode; set_mode runs at most once;
\* no step of run changes the configuration, the request or the window
\* handle, or reads the file again.
ConfigLoadedOnce ==
    /\ [](loadCalls <= 1 /\ setModeCalls <= 1)
    /\ [](setModeCalls = 1 => loadCalls = 1)
    /\ [](polls > 0 => (loadCalls = 1 /\ setModeCalls = 1 /\ screen = "Surface"))
    /\ [][(InLoop \/ pc \in {"pygame_quit", "sys_exit"}) =>
             /\ config' = config
             /\ loadCalls' = loadCalls
             /\ setModeCalls' = setModeCalls
             /\ request' = request
             /\ screen' = screen
             /\ file' = file]_vars

ConfigLoadedOnceWitness ==
    /\ pc = "poll"
    /\ Frames = 2
    /\ loadCalls = 1
    /\ setModeCalls = 1
    /\ ~config.isNone

====
